---- MODULE Spec2Model ----
(***************************************************************************)
(* First-order term unification (term_unification.h,                       *)
(* term_unification_lib.cpp) driven the way term_unification_client.cpp    *)
(* drives it: the caller builds two terms, calls Unifier::unify on them,   *)
(* and applies the returned substitution with Unifier::substitute.         *)
(***************************************************************************)
EXTENDS Naturals, Sequences, FiniteSets, TLC

(***************************************************************************)
(* Bounds of the model.                                                    *)
(***************************************************************************)
\* largest number of nodes of an input term (the left input has one less)
MaxSize == 4

(***************************************************************************)
(* State.                                                                  *)
(***************************************************************************)
VARIABLES
    t1, t2,     \* the two terms the caller built
    pc,         \* "built", "running", "unified", "reunified", "substituted",
                \* "repeated"
    result,     \* what unify(t1, t2) returned
    again,      \* the inputs and the result of a second unify call
    repeated,   \* what a repeated unify(t1, t2) returned
    subject, out,   \* the input and the result of a substitute call
    workingSub, \* Substitution working: the working substitution of the
                \* unify call in progress, or as the last call left it
    stack       \* the argument pairs the unify call in progress has still to
                \* match, the next one first

vars == <<t1, t2, pc, result, again, repeated, subject, out, workingSub, stack>>

(***************************************************************************)
(* The alphabet the caller builds terms from.  Identifiers are opaque      *)
(* std::string tokens.  The constant "f" shares its symbol with a functor. *)
(***************************************************************************)
VarNames == {"X", "XY", "Y"}
ConstNames == {"a", "f"}
\* functor/arity pairs the caller uses: the same functor with three arities
\* and a second functor
Signature == {<<"f", 0>>, <<"f", 1>>, <<"f", 2>>, <<"g", 1>>}

(***************************************************************************)
(* std::string and its operator<: a string is its sequence of character    *)
(* codes, compared lexicographically.                                      *)
(***************************************************************************)
Chars(s) ==
    CASE s = "X" -> <<88>>
      [] s = "XY" -> <<88, 89>>
      [] s = "Y" -> <<89>>
      [] s = "a" -> <<97>>
      [] s = "f" -> <<102>>
      [] s = "g" -> <<103>>

RECURSIVE SeqLess(_, _)
SeqLess(u, v) ==
    IF v = <<>> THEN FALSE
    ELSE IF u = <<>> THEN TRUE
    ELSE IF Head(u) # Head(v) THEN Head(u) < Head(v)
    ELSE SeqLess(Tail(u), Tail(v))

StringLess(s, t) == SeqLess(Chars(s), Chars(t))

(***************************************************************************)
(* The term model: Variable, Constant, Compound.                           *)
(***************************************************************************)
Variable(n) == [kind |-> "Variable", name |-> n, args |-> <<>>]
Constant(v) == [kind |-> "Constant", name |-> v, args |-> <<>>]
Compound(f, as) == [kind |-> "Compound", name |-> f, args |-> as]

isVariable(t) == t.kind = "Variable"
isConstant(t) == t.kind = "Constant"
isCompound(t) == t.kind = "Compound"
arity(t) == Len(t.args)

(***************************************************************************)
(* Unifier::Substitution, a std::map from identifier to term: a function   *)
(* whose domain is the set of keys.                                        *)
(***************************************************************************)
EmptySubstitution == << >>
Has(sub, n) == n \in DOMAIN sub
\* working[n] = t : insert or overwrite
Put(sub, n, t) == (n :> t) @@ sub

\* variant: the working substitution is kept by the Unifier from one call to
\* the next and never cleared
NewWorkingLeftOver == workingSub

\* Substitution working; the map a unify call starts from
NewWorking == EmptySubstitution

\* std::optional<Substitution>
NullOpt == [has |-> FALSE, value |-> EmptySubstitution]
Some(sub) == [has |-> TRUE, value |-> sub]

(***************************************************************************)
(* Unifier::cloneWithSubstitution                                          *)
(***************************************************************************)
\* variant: a bound variable is replaced by a copy of its binding, which is
\* not resolved further
RECURSIVE cloneWithSubstitutionOneStep(_, _)
cloneWithSubstitutionOneStep(term, sub) ==
    IF isVariable(term)
    THEN IF Has(sub, term.name) THEN sub[term.name] ELSE Variable(term.name)
    ELSE IF isConstant(term)
    THEN Constant(term.name)
    ELSE Compound(term.name,
                  [i \in 1..arity(term) |-> cloneWithSubstitutionOneStep(term.args[i], sub)])

\* variant: a compound is copied with clone(), its arguments as they are
RECURSIVE cloneWithSubstitutionShallow(_, _)
cloneWithSubstitutionShallow(term, sub) ==
    IF isVariable(term)
    THEN IF Has(sub, term.name)
         THEN cloneWithSubstitutionShallow(sub[term.name], sub)
         ELSE Variable(term.name)
    ELSE IF isConstant(term)
    THEN Constant(term.name)
    ELSE Compound(term.name, term.args)

RECURSIVE cloneWithSubstitution(_, _)
cloneWithSubstitution(term, sub) ==
    IF isVariable(term)
    THEN IF Has(sub, term.name)
         THEN cloneWithSubstitution(sub[term.name], sub)
         ELSE Variable(term.name)
    ELSE IF isConstant(term)
    THEN Constant(term.name)
    ELSE Compound(term.name,
                  [i \in 1..arity(term) |-> cloneWithSubstitution(term.args[i], sub)])

\* Unifier::substitute
substitute(term, sub) == cloneWithSubstitution(term, sub)

(***************************************************************************)
(* Unifier::occurs                                                         *)
(***************************************************************************)
\* variant: the name comparison is missing, any variable counts as an occurrence
RECURSIVE occursAnyVariable(_, _, _)
occursAnyVariable(varName, term, sub) ==
    IF isVariable(term) THEN TRUE
    ELSE IF isConstant(term) THEN FALSE
    ELSE \E i \in 1..arity(term) : occursAnyVariable(varName, term.args[i], sub)

RECURSIVE occurs(_, _, _)
occurs(varName, term, sub) ==
    IF isVariable(term)
    THEN IF term.name = varName THEN TRUE
         ELSE IF Has(sub, term.name) THEN occurs(varName, sub[term.name], sub)
         ELSE FALSE
    ELSE IF isConstant(term) THEN FALSE
    ELSE \E i \in 1..arity(term) : occurs(varName, term.args[i], sub)

(***************************************************************************)
(* Unifier::unifyInternal.  The result is the returned flag together with  *)
(* the working substitution as the call leaves it.                         *)
(***************************************************************************)
\* variant: no tie-break, the left variable is always the one bound
BindVariablesLeftFirst(lhs, rhs, working) ==
    IF lhs.name = rhs.name
    THEN [ok |-> TRUE, working |-> working]
    ELSE [ok |-> TRUE, working |-> Put(working, lhs.name, Variable(rhs.name))]

\* the variable-variable branch: the smaller identifier is bound to the other
BindVariables(lhs, rhs, working) ==
    IF lhs.name = rhs.name
    THEN [ok |-> TRUE, working |-> working]
    ELSE LET first == IF StringLess(lhs.name, rhs.name) THEN lhs ELSE rhs
             second == IF first = lhs THEN rhs ELSE lhs
         IN [ok |-> TRUE, working |-> Put(working, first.name, Variable(second.name))]

\* variant: the occurs check is missing
BindTermNoOccursCheck(v, other, working) ==
    [ok |-> TRUE,
     working |-> Put(working, v.name, cloneWithSubstitution(other, working))]

\* the variable / non-variable branches: occurs check, then bind
BindTerm(v, other, working) ==
    IF occurs(v.name, other, working)
    THEN [ok |-> FALSE, working |-> working]
    ELSE [ok |-> TRUE,
          working |-> Put(working, v.name, cloneWithSubstitution(other, working))]

RECURSIVE unifyInternal(_, _, _)
RECURSIVE unifyArgs(_, _, _, _)

\* variant: the loop returns after its first pair
unifyArgsFirstOnly(lc, rc, i, working) ==
    IF i > arity(lc)
    THEN [ok |-> TRUE, working |-> working]
    ELSE unifyInternal(lc.args[i], rc.args[i], working)

\* variant: the right argument is always the first one, rc->arg(0)
RECURSIVE unifyArgsWrongIndex(_, _, _, _)
unifyArgsWrongIndex(lc, rc, i, working) ==
    IF i > arity(lc)
    THEN [ok |-> TRUE, working |-> working]
    ELSE LET r == unifyInternal(lc.args[i], rc.args[1], working)
         IN IF ~r.ok THEN r
            ELSE unifyArgsWrongIndex(lc, rc, i + 1, r.working)

\* variant: the branch for a variable on the right is missing
unifyInternalNoRightVariable(a, b, working) ==
    LET lhs == cloneWithSubstitution(a, working)
        rhs == cloneWithSubstitution(b, working)
    IN IF isVariable(lhs) /\ isVariable(rhs) THEN BindVariables(lhs, rhs, working)
       ELSE IF isVariable(lhs) THEN BindTerm(lhs, rhs, working)
       ELSE IF isConstant(lhs) /\ isConstant(rhs)
       THEN [ok |-> lhs.name = rhs.name, working |-> working]
       ELSE IF isCompound(lhs) /\ isCompound(rhs)
       THEN IF lhs.name # rhs.name \/ arity(lhs) # arity(rhs)
            THEN [ok |-> FALSE, working |-> working]
            ELSE unifyArgs(lhs, rhs, 1, working)
       ELSE [ok |-> FALSE, working |-> working]

\* variant: compounds are compared by arity only
unifyInternalNoFunctorCheck(a, b, working) ==
    LET lhs == cloneWithSubstitution(a, working)
        rhs == cloneWithSubstitution(b, working)
    IN IF isVariable(lhs) /\ isVariable(rhs) THEN BindVariables(lhs, rhs, working)
       ELSE IF isVariable(lhs) THEN BindTerm(lhs, rhs, working)
       ELSE IF isVariable(rhs) THEN BindTerm(rhs, lhs, working)
       ELSE IF isConstant(lhs) /\ isConstant(rhs)
       THEN [ok |-> lhs.name = rhs.name, working |-> working]
       ELSE IF isCompound(lhs) /\ isCompound(rhs)
       THEN IF arity(lhs) # arity(rhs)
            THEN [ok |-> FALSE, working |-> working]
            ELSE unifyArgs(lhs, rhs, 1, working)
       ELSE [ok |-> FALSE, working |-> working]

\* the argument loop of the compound branch, from index i on
unifyArgs(lc, rc, i, working) ==
    IF i > arity(lc)
    THEN [ok |-> TRUE, working |-> working]
    ELSE LET r == unifyInternal(lc.args[i], rc.args[i], working)
         IN IF ~r.ok THEN r
            ELSE unifyArgs(lc, rc, i + 1, r.working)

unifyInternal(a, b, working) ==
    LET lhs == cloneWithSubstitution(a, working)
        rhs == cloneWithSubstitution(b, working)
    IN IF isVariable(lhs) /\ isVariable(rhs) THEN BindVariables(lhs, rhs, working)
       ELSE IF isVariable(lhs) THEN BindTerm(lhs, rhs, working)
       ELSE IF isVariable(rhs) THEN BindTerm(rhs, lhs, working)
       ELSE IF isConstant(lhs) /\ isConstant(rhs)
       THEN [ok |-> lhs.name = rhs.name, working |-> working]
       ELSE IF isCompound(lhs) /\ isCompound(rhs)
       THEN IF lhs.name # rhs.name \/ arity(lhs) # arity(rhs)
            THEN [ok |-> FALSE, working |-> working]
            ELSE unifyArgs(lhs, rhs, 1, working)
       ELSE [ok |-> FALSE, working |-> working]

(***************************************************************************)
(* Unifier::unify                                                          *)
(***************************************************************************)
\* variant: the working substitution is returned whatever unifyInternal says
unifyReturnsWorking(x, y) ==
    Some(unifyInternal(x, y, NewWorking).working)

\* variant: an empty working substitution is reported as no solution
unifyEmptyIsFailure(x, y) ==
    LET r == unifyInternal(x, y, NewWorking)
    IN IF ~r.ok \/ r.working = EmptySubstitution THEN NullOpt ELSE Some(r.working)

unify(x, y) ==
    LET r == unifyInternal(x, y, NewWorking)
    IN IF ~r.ok THEN NullOpt ELSE Some(r.working)

\* the working substitution as a unify call on x and y leaves it
workingAfter(x, y) == unifyInternal(x, y, NewWorking).working

(***************************************************************************)
(* The terms the caller can build (builders::var, constant, compound),     *)
(* by number of nodes.                                                     *)
(***************************************************************************)
Atoms == {Variable(n) : n \in VarNames} \cup {Constant(c) : c \in ConstNames}

RECURSIVE TermsOfSize(_)
RECURSIVE ArgLists(_, _)
\* the argument lists of k terms with n nodes in all
ArgLists(k, n) ==
    IF k = 0 THEN (IF n = 0 THEN {<<>>} ELSE {})
    ELSE IF n < k THEN {}
    ELSE UNION {{<<h>> \o rest : h \in TermsOfSize(m), rest \in ArgLists(k - 1, n - m)} :
                m \in 1..(n - k + 1)}

TermsOfSize(n) ==
    IF n = 0 THEN {}
    ELSE (IF n = 1 THEN Atoms ELSE {}) \cup
         UNION {{Compound(s[1], as) : as \in ArgLists(s[2], n - 1)} : s \in Signature}

TermsUpTo(n) == UNION {TermsOfSize(m) : m \in 1..n}


NoTerm == Constant("")
NoCall == [a |-> NoTerm, b |-> NoTerm, ret |-> NullOpt]

Init ==
    /\ t1 \in TermsUpTo(MaxSize - 1)
    /\ t2 \in TermsUpTo(MaxSize)
    /\ pc = "built"
    /\ result = NullOpt
    /\ again = NoCall
    /\ repeated = NullOpt
    /\ subject = NoTerm
    /\ out = NoTerm
    /\ workingSub = EmptySubstitution
    /\ stack = <<>>

\* auto result = unifier.unify(*test.t1, *test.t2);
Unify ==
    /\ pc = "built"
    /\ result' = unify(t1, t2)
    /\ workingSub' = workingAfter(t1, t2)
    /\ pc' = "unified"
    /\ UNCHANGED <<t1, t2, again, repeated, subject, out, stack>>

\* the inputs of a later unify call on the same Unifier: the same two terms,
\* the two exchanged, or an argument of the one and an argument of the other
LaterInputs ==
    {<<t1, t2>>, <<t2, t1>>} \cup
    {<<t1.args[i], t2.args[j]>> : i \in 1..arity(t1), j \in 1..arity(t2)}

UnifyAgain ==
    /\ pc = "unified"
    /\ \E p \in LaterInputs :
         /\ again' = [a |-> p[1], b |-> p[2], ret |-> unify(p[1], p[2])]
         /\ workingSub' = workingAfter(p[1], p[2])
    /\ pc' = "reunified"
    /\ UNCHANGED <<t1, t2, result, repeated, subject, out, stack>>

\* the terms the caller applies a returned substitution to: the inputs, the
\* bound terms (printSubstitution) and the variables
SubstituteInputs ==
    {t1, t2} \cup {result.value[n] : n \in DOMAIN result.value}
             \cup {Variable(n) : n \in VarNames}

\* unifier.substitute(t, *result)
Substitute ==
    /\ pc = "unified"
    /\ result.has
    /\ \E t \in SubstituteInputs :
         /\ subject' = t
         /\ out' = substitute(t, result.value)
    /\ pc' = "substituted"
    /\ UNCHANGED <<t1, t2, result, again, repeated, workingSub, stack>>

\* unify(t1, t2) once more on the same Unifier, after another unify call or a
\* substitute call
UnifyRepeat ==
    /\ pc \in {"reunified", "substituted"}
    /\ repeated' = unify(t1, t2)
    /\ workingSub' = workingAfter(t1, t2)
    /\ pc' = "repeated"
    /\ UNCHANGED <<t1, t2, result, again, subject, out, stack>>

Next == Unify \/ UnifyAgain \/ Substitute \/ UnifyRepeat

Spec == Init /\ [][Next]_vars

\* the caller builds two terms and makes one unify call
UnifySpec == Init /\ [][Unify]_vars

\* the caller's calls up to, and without, the repeated unify call
CallSpec == Init /\ [][Unify \/ UnifyAgain \/ Substitute]_vars

(***************************************************************************)
(* The calls step by step.  stack holds the invocations still to be made   *)
(* by the recursion in progress, the next one first: each step is one      *)
(* invocation of unifyInternal, occurs or cloneWithSubstitution, up to the *)
(* recursive calls it makes.                                               *)
(***************************************************************************)
Frame(op, name, a, b) == [op |-> op, name |-> name, a |-> a, b |-> b]

\* unifyInternal(a, b, working)
UnifyFrame(a, b) == Frame("unifyInternal", "", a, b)

\* occurs(varName, term, working)
OccursFrame(varName, term) == Frame("occurs", varName, term, NoTerm)

\* working[varName] = cloneWithSubstitution(term, working), after the occurs
\* check has returned false
WriteFrame(varName, term) == Frame("write", varName, term, NoTerm)

\* cloneWithSubstitution(term, sub)
CloneFrame(term) == Frame("cloneWithSubstitution", "", term, NoTerm)

\* variant: the loop runs from the last argument to the first
ArgPairsReversed(lc, rc) ==
    [i \in 1..arity(lc) |->
        UnifyFrame(lc.args[arity(lc) + 1 - i], rc.args[arity(lc) + 1 - i])]

\* for (i = 0; i < lc->arity(); ++i) unifyInternal(lc->arg(i), rc->arg(i), working)
ArgPairs(lc, rc) == [i \in 1..arity(lc) |-> UnifyFrame(lc.args[i], rc.args[i])]

\* the variable / non-variable branches: occurs is called, the write follows
OccursThenWrite(v, other) == <<OccursFrame(v.name, other), WriteFrame(v.name, other)>>

\* the cases of unifyInternal on the reduced terms lhs and rhs: whether it has
\* failed, the working substitution, and the calls it goes on to make
unifyCases(lhs, rhs, working) ==
    IF isVariable(lhs) /\ isVariable(rhs)
    THEN [calls |-> <<>>] @@ BindVariables(lhs, rhs, working)
    ELSE IF isVariable(lhs)
    THEN [ok |-> TRUE, working |-> working, calls |-> OccursThenWrite(lhs, rhs)]
    ELSE IF isVariable(rhs)
    THEN [ok |-> TRUE, working |-> working, calls |-> OccursThenWrite(rhs, lhs)]
    ELSE IF isConstant(lhs) /\ isConstant(rhs)
    THEN [ok |-> lhs.name = rhs.name, working |-> working, calls |-> <<>>]
    ELSE IF isCompound(lhs) /\ isCompound(rhs)
    THEN IF lhs.name # rhs.name \/ arity(lhs) # arity(rhs)
         THEN [ok |-> FALSE, working |-> working, calls |-> <<>>]
         ELSE [ok |-> TRUE, working |-> working, calls |-> ArgPairs(lhs, rhs)]
    ELSE [ok |-> FALSE, working |-> working, calls |-> <<>>]

\* variant: the two terms are matched as they are, not reduced under working
unifyStepUnreduced(a, b, working) == unifyCases(a, b, working)

\* one invocation of unifyInternal
unifyStep(a, b, working) ==
    unifyCases(cloneWithSubstitution(a, working),
               cloneWithSubstitution(b, working), working)

\* one invocation of occurs: whether it has found varName, and the calls it
\* goes on to make
occursStep(varName, term, sub) ==
    IF isVariable(term)
    THEN IF term.name = varName THEN [found |-> TRUE, calls |-> <<>>]
         ELSE IF Has(sub, term.name)
         THEN [found |-> FALSE, calls |-> <<OccursFrame(varName, sub[term.name])>>]
         ELSE [found |-> FALSE, calls |-> <<>>]
    ELSE IF isConstant(term) THEN [found |-> FALSE, calls |-> <<>>]
    ELSE [found |-> FALSE,
          calls |-> [i \in 1..arity(term) |-> OccursFrame(varName, term.args[i])]]

\* variant: a bound variable is looked up again instead of its bound term
cloneStepSameTerm(term, sub) ==
    IF isVariable(term)
    THEN IF Has(sub, term.name) THEN <<CloneFrame(term)>> ELSE <<>>
    ELSE [i \in 1..arity(term) |-> CloneFrame(term.args[i])]

\* one invocation of cloneWithSubstitution: the calls it goes on to make
cloneStep(term, sub) ==
    IF isVariable(term)
    THEN IF Has(sub, term.name) THEN <<CloneFrame(sub[term.name])>> ELSE <<>>
    ELSE IF isConstant(term) THEN <<>>
    ELSE [i \in 1..arity(term) |-> CloneFrame(term.args[i])]

\* unify is entered: Substitution working; unifyInternal(t1, t2, working)
Call ==
    /\ pc = "built"
    /\ workingSub' = NewWorking
    /\ stack' = <<UnifyFrame(t1, t2)>>
    /\ pc' = "running"
    /\ UNCHANGED <<t1, t2, result, again, repeated, subject, out>>

\* one invocation of unifyInternal; a failure is propagated through the
\* argument loops to unify, which returns std::nullopt
Step ==
    /\ pc = "running"
    /\ stack # <<>>
    /\ Head(stack).op = "unifyInternal"
    /\ LET r == unifyStep(Head(stack).a, Head(stack).b, workingSub)
       IN /\ workingSub' = r.working
          /\ IF r.ok
             THEN /\ stack' = r.calls \o Tail(stack)
                  /\ UNCHANGED <<pc, result>>
             ELSE /\ stack' = <<>>
                  /\ result' = NullOpt
                  /\ pc' = "unified"
    /\ UNCHANGED <<t1, t2, again, repeated, subject, out>>

\* one invocation of occurs; when the variable is found every occurs in
\* progress returns true, unifyInternal returns false and unify std::nullopt
OccursStep ==
    /\ pc = "running"
    /\ stack # <<>>
    /\ Head(stack).op = "occurs"
    /\ LET r == occursStep(Head(stack).name, Head(stack).a, workingSub)
       IN IF r.found
          THEN /\ stack' = <<>>
               /\ result' = NullOpt
               /\ pc' = "unified"
          ELSE /\ stack' = r.calls \o Tail(stack)
               /\ UNCHANGED <<pc, result>>
    /\ UNCHANGED <<t1, t2, again, repeated, subject, out, workingSub>>

\* occurs has returned false: the variable is bound
WriteStep ==
    /\ pc = "running"
    /\ stack # <<>>
    /\ Head(stack).op = "write"
    /\ workingSub' = Put(workingSub, Head(stack).name,
                         cloneWithSubstitution(Head(stack).a, workingSub))
    /\ stack' = Tail(stack)
    /\ UNCHANGED <<t1, t2, pc, result, again, repeated, subject, out>>

\* every pair matched: return working;
Return ==
    /\ pc = "running"
    /\ stack = <<>>
    /\ result' = Some(workingSub)
    /\ pc' = "unified"
    /\ UNCHANGED <<t1, t2, again, repeated, subject, out, workingSub, stack>>

\* unifier.substitute(t, *result) is entered
SubstituteCall ==
    /\ pc = "unified"
    /\ result.has
    /\ \E t \in SubstituteInputs :
         /\ subject' = t
         /\ stack' = <<CloneFrame(t)>>
    /\ pc' = "substituting"
    /\ UNCHANGED <<t1, t2, result, again, repeated, out, workingSub>>

\* one invocation of cloneWithSubstitution
CloneStep ==
    /\ pc = "substituting"
    /\ stack # <<>>
    /\ stack' = cloneStep(Head(stack).a, result.value) \o Tail(stack)
    /\ UNCHANGED <<t1, t2, pc, result, again, repeated, subject, out, workingSub>>

\* every invocation has returned: substitute returns the term built
SubstituteReturn ==
    /\ pc = "substituting"
    /\ stack = <<>>
    /\ out' = substitute(subject, result.value)
    /\ pc' = "substituted"
    /\ UNCHANGED <<t1, t2, result, again, repeated, subject, workingSub, stack>>

StepNext ==
    \/ Call \/ Step \/ OccursStep \/ WriteStep \/ Return
    \/ SubstituteCall \/ CloneStep \/ SubstituteReturn

StepSpec == Init /\ [][StepNext]_vars

\* the caller has built two terms, each of at most MaxSize - 1 symbols
InitSameSize ==
    /\ t1 \in TermsUpTo(MaxSize - 1)
    /\ t2 \in TermsUpTo(MaxSize - 1)
    /\ pc = "built"
    /\ result = NullOpt
    /\ again = NoCall
    /\ repeated = NullOpt
    /\ subject = NoTerm
    /\ out = NoTerm
    /\ workingSub = EmptySubstitution
    /\ stack = <<>>

\* the calls are synchronous and single-threaded: a call in progress keeps
\* running
FairStepSpec == InitSameSize /\ [][StepNext]_vars /\ WF_vars(StepNext)

(***************************************************************************)
(* Reference notions the properties are stated with.                       *)
(***************************************************************************)
RECURSIVE VarsOf(_)
\* the identifiers of the variables of a term
VarsOf(t) ==
    IF isVariable(t) THEN {t.name}
    ELSE UNION {VarsOf(t.args[i]) : i \in 1..arity(t)}

\* a substitution in the textbook sense: a map from identifiers to terms (an
\* identifier mapped to its own variable, or not mapped, is left alone),
\* applied in one simultaneous pass
InstanceValues ==
    Atoms \cup {Compound("f", <<>>),
                Compound("g", <<Constant("a")>>),
                Compound("g", <<Variable("X")>>),
                Compound("f", <<Constant("a"), Constant("f")>>)}

\* the instantiations of the variables of x and y
Instantiations(x, y) == [VarsOf(x) \cup VarsOf(y) -> InstanceValues]

RECURSIVE Instance(_, _)
Instance(t, T) ==
    IF isVariable(t) THEN (IF t.name \in DOMAIN T THEN T[t.name] ELSE t)
    ELSE [t EXCEPT !.args = [i \in 1..arity(t) |-> Instance(t.args[i], T)]]

Unifies(T, x, y) == Instance(x, T) = Instance(y, T)

\* the identifiers reachable from n by following bindings of sub (n excluded
\* unless it is reached again)
RECURSIVE ReachFrom(_, _, _)
ReachFrom(front, seen, sub) ==
    LET next == UNION {VarsOf(sub[n]) : n \in front \cap DOMAIN sub}
    IN IF next \subseteq seen THEN seen
       ELSE ReachFrom(next \ seen, seen \cup next, sub)

Reaches(n, sub) == ReachFrom({n}, {}, sub)

Acyclic(sub) == \A n \in DOMAIN sub : n \notin Reaches(n, sub)

\* the unify call the last step made, if it made one: its inputs and what it
\* returned
LastCall ==
    IF pc = "unified" THEN {[a |-> t1, b |-> t2, ret |-> result]}
    ELSE IF pc = "reunified" THEN {again}
    ELSE IF pc = "repeated" THEN {[a |-> t1, b |-> t2, ret |-> repeated]}
    ELSE {}

X == Variable("X")
Y == Variable("Y")
XY == Variable("XY")

f2(x, y) == Compound("f", <<x, y>>)
g1(x) == Compound("g", <<x>>)

(***************************************************************************)
(* Properties.                                                             *)
(***************************************************************************)

\* C1: whenever unify(a, b) returns a substitution S, substitute(a, S) and
\* substitute(b, S) are the same term.
C1_UnifierMakesIdentical ==
    \A c \in LastCall :
        c.ret.has => substitute(c.a, c.ret.value) = substitute(c.b, c.ret.value)

\* two different compounds were unified by a substitution with two keys
C1_Witness ==
    /\ pc = "unified" /\ result.has
    /\ isCompound(t1) /\ isCompound(t2) /\ t1 # t2
    /\ Cardinality(DOMAIN result.value) >= 2

\* C2: unify fails only when no substitution makes the two terms identical:
\* after a failure, no instantiation of the variables unifies the inputs.
C2_FailureMeansNoUnifier ==
    \A c \in LastCall :
        ~c.ret.has => \A T \in Instantiations(c.a, c.b) : ~Unifies(T, c.a, c.b)

\* the failures met: occurs check, constant mismatch, functor or arity
\* mismatch under equal first arguments; here the occurs check inside a compound
C2_Witness ==
    /\ pc = "unified" /\ ~result.has
    /\ isCompound(t1) /\ isCompound(t2)
    /\ t1.name = t2.name /\ arity(t1) = arity(t2)
    /\ VarsOf(t1) # {} /\ VarsOf(t2) # {}

\* C3: the returned substitution S is most general: every instantiation T that
\* unifies the inputs satisfies T(substitute(t, S)) = T(t), for the inputs and
\* for every variable t.
C3_MostGeneral ==
    \A c \in LastCall :
        c.ret.has =>
            \A T \in Instantiations(c.a, c.b) :
                Unifies(T, c.a, c.b) =>
                    \A t \in {c.a, c.b} \cup {Variable(n) : n \in VarNames} :
                        Instance(substitute(t, c.ret.value), T) = Instance(t, T)

\* a call returned bindings and left a variable of its inputs unbound, which a
\* unifier of the inputs instantiates
C3_Witness ==
    /\ pc = "unified" /\ result.has /\ result.value # EmptySubstitution
    /\ \E T \in Instantiations(t1, t2) :
         /\ Unifies(T, t1, t2)
         /\ \E n \in (VarsOf(t1) \cup VarsOf(t2)) \ DOMAIN result.value :
                T[n] # Variable(n)

\* C4: a unify call whose matching fails returns NullOpt and nothing else, and
\* a later call returns bindings of the variables of its own inputs only.
C4_FailureReturnsNothing ==
    \A c \in LastCall :
        /\ ~unifyInternal(c.a, c.b, EmptySubstitution).ok => c.ret = NullOpt
        /\ DOMAIN c.ret.value \subseteq VarsOf(c.a) \cup VarsOf(c.b)

\* the first call failed after it had bound a variable, and a later call on
\* arguments of the same terms succeeded
C4_Witness ==
    /\ pc = "reunified" /\ ~result.has
    /\ unifyInternal(t1, t2, EmptySubstitution).working # EmptySubstitution
    /\ again.ret.has /\ again.ret.value # EmptySubstitution

\* C5: unify fails when a variable meets a compound that contains it, directly
\* or through bindings made earlier in the call, and no returned substitution
\* binds a variable to a term in which it occurs after resolution.
C5_OccursCheck ==
    \A c \in LastCall :
        /\ (isVariable(c.a) /\ isCompound(c.b) /\ c.a.name \in VarsOf(c.b)) => ~c.ret.has
        /\ (isVariable(c.b) /\ isCompound(c.a) /\ c.b.name \in VarsOf(c.a)) => ~c.ret.has
        /\ (c.a = f2(X, Y) /\ c.b = f2(Y, g1(X))) => ~c.ret.has
        /\ c.ret.has =>
              /\ Acyclic(c.ret.value)
              /\ \A n \in DOMAIN c.ret.value :
                    n \notin VarsOf(substitute(c.ret.value[n], c.ret.value))

\* unify(f(X,Y), f(Y, g(X))) was called and failed
C5_Witness ==
    /\ pc = "unified" /\ ~result.has
    /\ t1 = f2(X, Y) /\ t2 = f2(Y, g1(X))

\* C6: unify(b, a) succeeds iff unify(a, b) does, and when they succeed each
\* of the two substitutions makes a and b resolve to the same term.
C6_Symmetry ==
    (pc = "reunified" /\ again.a = t2 /\ again.b = t1) =>
        /\ result.has <=> again.ret.has
        /\ result.has =>
              \A S \in {result.value, again.ret.value} :
                  substitute(t1, S) = substitute(t2, S)

\* both orders of two different terms were unified, with bindings
C6_Witness ==
    /\ pc = "reunified" /\ again.a = t2 /\ again.b = t1 /\ t1 # t2
    /\ result.has /\ result.value # EmptySubstitution
    /\ ~isVariable(t1) /\ isVariable(t2)

\* C7: for a ground term T, unify(T, T) succeeds with the empty substitution.
C7_Reflexivity ==
    \A c \in LastCall :
        (c.a = c.b /\ VarsOf(c.a) = {}) => c.ret = Some(EmptySubstitution)

\* a ground compound of two arguments was unified with itself
C7_Witness ==
    /\ pc = "unified" /\ t1 = t2 /\ VarsOf(t1) = {}
    /\ isCompound(t1) /\ arity(t1) = 2 /\ result.has

\* C8: for a substitution S returned by unify, substitute(substitute(t, S), S)
\* is substitute(t, S).
C8_SubstituteIdempotent ==
    pc = "substituted" => substitute(out, result.value) = out

\* substitute changed a term whose variable is bound to a bound variable
C8_Witness ==
    /\ pc = "substituted" /\ out # subject
    /\ \E n \in VarsOf(subject) :
         /\ Has(result.value, n) /\ isVariable(result.value[n])
         /\ Has(result.value, result.value[n].name)

\* the constants and the compounds of t are where they were in r, and a
\* variable of t without a binding is itself
RECURSIVE SameSkeleton(_, _, _)
SameSkeleton(t, r, sub) ==
    IF isVariable(t) THEN Has(sub, t.name) \/ r = t
    ELSE IF isConstant(t) THEN r = t
    ELSE /\ isCompound(r) /\ r.name = t.name /\ arity(r) = arity(t)
         /\ \A i \in 1..arity(t) : SameSkeleton(t.args[i], r.args[i], sub)

\* C9: substitute(t, S) contains no variable that is a key of S, keeps every
\* variable of t that has no entry in S, and keeps the constants, functors and
\* arities of t.
C9_FullResolution ==
    pc = "substituted" =>
        /\ VarsOf(out) \cap DOMAIN result.value = {}
        /\ VarsOf(subject) \ DOMAIN result.value \subseteq VarsOf(out)
        /\ SameSkeleton(subject, out, result.value)

\* a compound with a variable bound through a chain, resolved to a term that
\* still has a variable
C9_Witness ==
    /\ pc = "substituted" /\ isCompound(subject) /\ VarsOf(out) # {}
    /\ \E n \in VarsOf(subject) :
         /\ Has(result.value, n) /\ isVariable(result.value[n])
         /\ Has(result.value, result.value[n].name)

\* C10: unifying two distinct unbound variables binds the lexicographically
\* smaller identifier to a Variable with the larger one, whichever side each
\* is on; unifying a variable with itself adds no binding.
C10_TieBreak ==
    \A c \in LastCall :
        /\ (isVariable(c.a) /\ isVariable(c.b)) =>
              IF c.a.name = c.b.name
              THEN c.ret = Some(EmptySubstitution)
              ELSE \E lo, hi \in {c.a.name, c.b.name} :
                      /\ StringLess(lo, hi)
                      /\ c.ret = Some(lo :> Variable(hi))
        /\ (c.a = X /\ c.b = Y) => c.ret = Some("X" :> Y)
        /\ (c.a = Y /\ c.b = X) => c.ret = Some("X" :> Y)
        /\ (c.a = Y /\ c.b = XY) => c.ret = Some("XY" :> Y)
        /\ (c.a = XY /\ c.b = X) => c.ret = Some("X" :> XY)
        /\ c.ret.has =>
              \A n \in DOMAIN c.ret.value :
                  isVariable(c.ret.value[n]) => StringLess(n, c.ret.value[n].name)

\* unify(Y, X) was called
C10_Witness ==
    /\ pc = "unified" /\ t1 = Y /\ t2 = X /\ result.has


\* C11: two compounds with different functors or different arities do not
\* unify, whatever their arguments, and a constant never unifies with a
\* compound, a zero-arity compound with the constant's symbol included.
C11_Strictness ==
    \A c \in LastCall :
        /\ (isCompound(c.a) /\ isCompound(c.b)
              /\ (c.a.name # c.b.name \/ arity(c.a) # arity(c.b))) => ~c.ret.has
        /\ (isConstant(c.a) /\ isCompound(c.b)) => ~c.ret.has
        /\ (isCompound(c.a) /\ isConstant(c.b)) => ~c.ret.has
        /\ (c.a = Constant("f") /\ c.b = Compound("f", <<>>)) => c.ret = NullOpt

\* unify(f, f()) was called: the constant f and the zero-arity compound f
C11_Witness ==
    /\ pc = "unified" /\ ~result.has
    /\ t1 = Constant("f") /\ t2 = Compound("f", <<>>)

TwoArgumentCall ==
    /\ isCompound(t1) /\ isCompound(t2)
    /\ t1.name = t2.name /\ arity(t1) = 2 /\ arity(t2) = 2

\* the first pair and all the pairs below it are done, the second is next
SecondPairNext ==
    /\ TwoArgumentCall /\ pc = "running"
    /\ stack = <<UnifyFrame(t1.args[2], t2.args[2])>>

C13_LeftToRight ==
    /\ SecondPairNext =>
          /\ unify(t1.args[1], t2.args[1]).has
          /\ workingSub = unify(t1.args[1], t2.args[1]).value
    /\ (TwoArgumentCall /\ pc = "unified"
           /\ ~unify(t1.args[1], t2.args[1]).has) =>
          /\ ~result.has
          /\ workingSub = workingAfter(t1.args[1], t2.args[1])
    /\ (pc = "unified" /\ t1 = f2(X, Y) /\ t2 = f2(Y, Constant("a"))) =>
          /\ result.has
          /\ substitute(X, result.value) = Constant("a")
          /\ substitute(Y, result.value) = Constant("a")
    /\ (pc = "unified" /\ t1 = f2(X, X)
           /\ t2 = f2(Constant("a"), Constant("f"))) => ~result.has

\* the second pair of f(X, Y) and f(Y, a) is about to be matched, with the
\* binding of the first pair in place
C13_Witness ==
    /\ SecondPairNext
    /\ t1 = f2(X, Y) /\ t2 = f2(Y, Constant("a"))
    /\ workingSub # EmptySubstitution

(***************************************************************************)
(* C14: at every step of a unify call, and for every returned substitution:*)
(* every key of the working substitution is the identifier of a variable   *)
(* that occurs in t1 or t2, the binding graph is acyclic, and a binding,   *)
(* once written, is never written again.  A bound term may nevertheless    *)
(* mention a variable that is a key itself (C14_Witness).                  *)
(***************************************************************************)
WellFormed(sub) ==
    /\ DOMAIN sub \subseteq VarsOf(t1) \cup VarsOf(t2)
    /\ Acyclic(sub)

\* a step of the call keeps every binding that is there
WrittenOnce ==
    pc = "running" =>
        \A n \in DOMAIN workingSub :
            n \in DOMAIN workingSub' /\ workingSub'[n] = workingSub[n]

C14_Bindings ==
    /\ [](pc \in {"running", "unified"} => WellFormed(workingSub))
    /\ []((pc = "unified" /\ result.has) =>
            result.value = workingSub /\ WellFormed(result.value))
    /\ [][WrittenOnce]_vars

\* f(X, Y) and f(g(Y), a): X is bound to g(Y) first, Y is bound afterwards
C14_Witness ==
    /\ pc = "unified" /\ result.has
    /\ t1 = f2(X, Y) /\ t2 = f2(g1(Y), Constant("a"))
    /\ result.value = Put(Put(EmptySubstitution, "X", g1(Y)), "Y", Constant("a"))

(***************************************************************************)
(* C15: termination.  Every unify call eventually returns, with success or *)
(* with failure, and every substitute call on a substitution returned by a *)
(* successful unify eventually returns a term: the recursions of           *)
(* unifyInternal, occurs and cloneWithSubstitution, followed invocation by *)
(* invocation, come to an end.                                             *)
(***************************************************************************)
C15_Termination ==
    /\ (pc = "running") ~> (pc = "unified")
    /\ (pc = "substituting") ~> (pc = "substituted")

\* substitute has returned a for X under X -> Y, Y -> a, having followed the
\* chain from X through Y
C15_Witness ==
    /\ pc = "substituted"
    /\ t1 = f2(X, Y) /\ t2 = f2(Y, Constant("a"))
    /\ result.value = Put(Put(EmptySubstitution, "X", Y), "Y", Constant("a"))
    /\ subject = X
    /\ out = Constant("a")

====
